---- MODULE Spec2Model ----
(***************************************************************************)
(* Model of the keyshare core (package keysharecore, operations.go):       *)
(* PIN-protected keyshare packets, access tokens, and the commit/response  *)
(* protocol with its mutex-guarded commitment store.                       *)
(*                                                                         *)
(* Modelling conventions                                                   *)
(*  - A 32-byte packet id read from crypto/rand is a value never drawn     *)
(*    before (counter nextId): 256-bit nonces are treated as fresh.        *)
(*  - A 64-bit commit id read from crypto/rand is ANY value of CommitIDs:  *)
(*    collisions with ids already in the store are possible outcomes.      *)
(*  - A commit secret from gabi.NewKeyshareCommitments is a fresh value    *)
(*    (counter nextCommit).                                                *)
(*  - RSA signatures are unforgeable: only tokens the engine signed carry  *)
(*    sig = "signKey".                                                     *)
(*  - jwt-go (github.com/dgrijalva/jwt-go v3) accepts the exp claim with   *)
(*    verifyExp(exp, now, required) == now <= exp, and iat with now >= iat.*)
(*  - encryptPacket / decryptPacket and the packet accessors live in a     *)
(*    file that is not among the sources; they are modelled from the       *)
(*    specification (sections 3, 4.B, 4.C).                                *)
(***************************************************************************)
EXTENDS Integers, Sequences, FiniteSets, TLC

\* ------------------------------------------------------------------ bounds
\* longest PIN tried byte by byte, and the largest byte in it
MaxPinLen == 2
MaxPinByte == 1
\* packets ever built (ids drawn), and how many of them by
\* GenerateKeyshareSecret / DangerousBuildKeyshareSecret
MaxPacketIDs == 3
MaxRoots == 1
\* PIN changes in the lifecycle specification Spec
MaxChanges == 1
\* distinct access tokens issued
MaxTokens == 1
\* advances of the clock
MaxTicks == 1
\* values a commit id can take, and commit secrets ever drawn
MaxCommitID == 2
MaxCommits == 2
\* concurrent callers, and users holding a packet at the start of a session
NThreads == 2
MUsers == 1

\* ------------------------------------------------------- program constants
PinSize == 64
TokenLifetime == 180
Lh == 256

\* ----------------------------------------------------------------- values
ErrInvalidPin == "InvalidPin"
ErrPinTooLong == "PinTooLong"
ErrInvalidChallenge == "InvalidChallenge"
ErrInvalidJWT == "InvalidJWT"
ErrKeyNotFound == "KeyNotFound"
ErrUnknownCommit == "UnknownCommit"
\* returned by decryptPacket
ErrInvalidPacket == "InvalidPacket"
\* errors of crypto/rand and of the gabi primitives, passed through unchanged
ErrInternal == "Internal"
OK == "ok"

Bytes == 0..MaxPinByte
\* PIN strings offered by callers: every byte string up to MaxPinLen over
\* Bytes (NUL included), one of exactly PinSize bytes and one of PinSize + 1.
FullPin == [i \in 1..PinSize |-> 1]
OverlongPin == [i \in 1..(PinSize + 1) |-> 1]
PinInputs ==
    UNION {[1..n -> Bytes] : n \in 0..MaxPinLen} \cup {FullPin, OverlongPin}
\* PINs used where the PIN is not the subject: two different ones, and the
\* over-long one.
SessionPins == {<<1>>, <<0, 1>>, OverlongPin}

Secrets == {1, 2}
\* a secret p.setKeyshareSecret refuses (negative)
BadSecret == 0 - 1
UserIDs == {"u"}
CommitIDs == 1..MaxCommitID
KeyIDs == {"K1", "K2", "KX"}
TrustedKeyIDs == {"K1", "K2"}
KeyLists == {<<>>, <<"K1">>, <<"K1", "K2">>, <<"K1", "KX">>, <<"KX">>}
\* whether crypto/rand and the gabi primitives succeed in a call
Oracles == {"ok", "fail"}
\* seconds the clock may advance between two time.Now() reads of one call
Skews == {0, 1}
\* a challenge is read only through BitLen() and its sign
Challenges ==
    {[sign |-> 1, bits |-> 6], [sign |-> 0, bits |-> 0],
     [sign |-> 1, bits |-> Lh], [sign |-> 1, bits |-> Lh + 1],
     [sign |-> -1, bits |-> 6]}

NoPacket == [pin |-> <<>>, secret |-> 0, id |-> 0]
NoEP == [v |-> 0, mac |-> "none", ct |-> NoPacket]
NoTokenID == [kind |-> "missing", val |-> 0]
NoToken ==
    [alg |-> "", kid |-> "", sig |-> "", iss |-> "", sub |-> "", iat |-> 0,
     exp |-> 0, user_id |-> "", token_id |-> NoTokenID]

\* ------------------------------------------------------------------- state
VARIABLES
    now,             \* time.Now().Unix()
    ticks,           \* number of clock advances so far
    packets,         \* encrypted packets held by callers (persistence layer)
    tokens,          \* access tokens issued by ValidatePin
    nextId,          \* next fresh 32-byte packet id
    nextCommit,      \* next fresh commit secret
    trustedKeys,     \* c.trustedKeys
    signKey,         \* c.signKey
    commitmentData,  \* c.commitmentData: commit id -> commit secret
    commitmentMutex, \* c.commitmentMutex: 0 (free) or the holding thread
    last,            \* the last call: operation, result, commit id, ids
    lineage,         \* history: packet id -> root secret, latest PIN, ancestors
    respSeen,        \* history: commit id -> what GenerateResponse calls on it
                     \* returned since the id was last drawn
    answeredEver,    \* history: commit ids on which a response was ever issued
    answers,         \* history: commit secret -> number of responses using it
    owner,           \* history: commit id -> put: id in the packet given to the
                     \* GenerateCommitments that stored the record last; got:
                     \* id in the packet given to the GenerateResponse that
                     \* fetched that record (0: none)
    pc,              \* thread -> position
    loc,             \* thread -> locals of the running call
    ret,             \* thread -> results of its two calls
    lin              \* history: calls in the order they accessed the store

vars ==
    <<now, ticks, packets, tokens, nextId, nextCommit, trustedKeys, signKey,
      commitmentData, commitmentMutex, last, lineage, respSeen, answeredEver,
      answers, owner, pc, loc, ret, lin>>

seqVars == <<now, ticks, packets, tokens, nextId, nextCommit, last, lineage,
             respSeen, answeredEver, answers, owner>>
thrVars == <<commitmentMutex, pc, loc, ret, lin>>
keyVars == <<trustedKeys, signKey>>

\* -------------------------------------------------------------- PIN padding
\* a padPin that checks the length and returns the PIN as given
padPinUnpadded(pin) ==
    IF Len(pin) > PinSize
    THEN [err |-> ErrPinTooLong, val |-> <<>>]
    ELSE [err |-> OK, val |-> pin]

\* padPin: 64 bytes, the PIN followed by zero bytes; over-long PINs fail.
padPin(pin) ==
    IF Len(pin) > PinSize
    THEN [err |-> ErrPinTooLong, val |-> <<>>]
    ELSE [err |-> OK,
          val |-> [i \in 1..PinSize |-> IF i <= Len(pin) THEN pin[i] ELSE 0]]

\* a comparison whose outcome is ignored
hmacEqualAlways(a, b) == TRUE

\* hmac.Equal on two byte strings
hmacEqual(a, b) == a = b

\* ---------------------------------------------------------- packet, cipher
CurrentKeyVersion == 1
KeyVersions == {1}

setKeyshareSecretOK(secret) == secret >= 0

encryptPacket(p) == [v |-> CurrentKeyVersion, mac |-> "ok", ct |-> p]

decryptPacket(ep) ==
    IF ep.v \in KeyVersions /\ ep.mac = "ok"
    THEN [err |-> OK, p |-> ep.ct]
    ELSE [err |-> ErrInvalidPacket, p |-> NoPacket]

\* a bit flipped in the stored bytes of ep
Tamper(ep) == [ep EXCEPT !.mac = "bad"]

\* ------------------------------------------------------------------ base64
B64Encode(id) == [kind |-> "b64", val |-> id]
B64Decode(s) ==
    IF s.kind = "b64" THEN [err |-> OK, val |-> s.val]
    ELSE [err |-> "illegal base64", val |-> 0]

\* ------------------------------------------------------------ access tokens
\* jwt.NewWithClaims(RS256, ...) followed by token.SignedString(c.signKey)
AccessToken(iat, exp, userID, id) ==
    [alg |-> "RS256", kid |-> "kid", sig |-> signKey, iss |-> "keyshare_server",
     sub |-> "auth_tok", iat |-> iat, exp |-> exp, user_id |-> userID,
     token_id |-> B64Encode(id)]

\* the token GenerateResponse signs: no exp and no token_id claim
ResponseToken(iat) ==
    [alg |-> "RS256", kid |-> "kid", sig |-> signKey, iss |-> "keyshare_server",
     sub |-> "ProofP", iat |-> iat, exp |-> 0, user_id |-> "",
     token_id |-> NoTokenID]

\* jwt-go: verifyExp / MapClaims.VerifyExpiresAt; an absent exp is 0
VerifyExpiresAt(tok, t, required) ==
    IF tok.exp = 0 THEN ~required ELSE t <= tok.exp

\* jwt-go: MapClaims.Valid (exp and iat, neither required)
ClaimsValid(tok, t) ==
    /\ VerifyExpiresAt(tok, t, FALSE)
    /\ (tok.iat = 0 \/ t >= tok.iat)

\* jwt.Parse with the key function of verifyAccess: the method must be
\* RS256, the signature must verify under c.signKey.PublicKey, and the
\* claims must be valid.
ParseOK(tok, t) ==
    /\ tok.alg = "RS256"
    /\ tok.sig = signKey
    /\ ClaimsValid(tok, t)

\* verifyAccess at clock time t: the error and the decrypted packet
\* a verifyAccess that reads the packet without heeding the decryption error
verifyAccessUnchecked(ep, tok, t) ==
    LET bad == [err |-> ErrInvalidJWT, p |-> NoPacket]
        tokenID == B64Decode(tok.token_id)
    IN  IF ~ParseOK(tok, t) \/ ~VerifyExpiresAt(tok, t, TRUE) THEN bad
        ELSE IF tokenID.err # OK THEN bad
        ELSE IF ~hmacEqual(ep.ct.id, tokenID.val) THEN bad
        ELSE [err |-> OK, p |-> ep.ct]

\* Core.verifyAccess: the packet, or the error
verifyAccess(ep, tok, t) ==
    LET bad == [err |-> ErrInvalidJWT, p |-> NoPacket]
        tokenID == B64Decode(tok.token_id)
        dec == decryptPacket(ep)
    IN  IF ~ParseOK(tok, t) THEN bad
        ELSE IF ~ClaimsValid(tok, t) THEN bad
        ELSE IF ~VerifyExpiresAt(tok, t, TRUE) THEN bad
        ELSE IF tok.token_id.kind = "missing" THEN bad
        ELSE IF tok.token_id.kind = "notstring" THEN bad
        ELSE IF tokenID.err # OK THEN bad
        ELSE IF dec.err # OK THEN [err |-> dec.err, p |-> NoPacket]
        ELSE IF ~hmacEqual(dec.p.id, tokenID.val) THEN bad
        ELSE [err |-> OK, p |-> dec.p]

\* ---------------------------------------------------------- what callers hold
\* tokens an attacker can build without the signing key, aimed at every
\* packet id in existence
ForgeKinds ==
    {[alg |-> "none", sig |-> "none"], [alg |-> "HS256", sig |-> "hmac"],
     [alg |-> "RS256", sig |-> "otherKey"]}
ForgedTokens ==
    {[AccessToken(now, now + TokenLifetime, "u", i)
        EXCEPT !.alg = f.alg, !.sig = f.sig] :
        f \in ForgeKinds, i \in 1..(nextId - 1)}
OfferedTokens == tokens \cup ForgedTokens
OfferedPackets == packets \cup {Tamper(ep) : ep \in packets}

\* --------------------------------------------------------- commitment store
\* an insert that drops every other record
mapInsertAlone(d, id, s) == (id :> s)
\* an insert that keeps the record already stored under the id
mapInsertKeep(d, id, s) == d @@ (id :> s)
mapInsert(d, id, s) == (id :> s) @@ d
\* a lookup whose ok is ignored
mapHasAlways(d, id) == TRUE
mapHas(d, id) == id \in DOMAIN d
mapGet(d, id) == IF id \in DOMAIN d THEN d[id] ELSE 0
\* a delete that is left out
mapDeleteNothing(d, id) == d
mapDelete(d, id) == [x \in (DOMAIN d) \ {id} |-> d[x]]

\* ------------------------------------------------- results of the operations
\* Each operation's error (OK for success) as the code computes it from its
\* arguments, the clock and the store; oracle says whether crypto/rand and
\* the gabi primitive succeed.
GenerateKeyshareSecretRes(pinRaw, oracle) ==
    IF padPin(pinRaw).err # OK THEN padPin(pinRaw).err
    ELSE IF oracle # "ok" THEN ErrInternal
    ELSE OK

DangerousBuildKeyshareSecretRes(pinRaw, secret, oracle) ==
    IF padPin(pinRaw).err # OK THEN padPin(pinRaw).err
    ELSE IF oracle # "ok" THEN ErrInternal
    ELSE IF ~setKeyshareSecretOK(secret) THEN ErrInternal
    ELSE OK

ValidatePinRes(ep, pin) ==
    LET paddedPin == padPin(pin)
        dec == decryptPacket(ep)
    IN  IF paddedPin.err # OK THEN paddedPin.err
        ELSE IF dec.err # OK THEN dec.err
        ELSE IF ~hmacEqual(dec.p.pin, paddedPin.val) THEN ErrInvalidPin
        ELSE OK

\* the token ValidatePin returns when the clock reads t1 for iat and t2 for exp
ValidatePinToken(ep, userID, t1, t2) ==
    AccessToken(t1, t2 + TokenLifetime, userID, decryptPacket(ep).p.id)

ValidateJWTRes(ep, tok, t) == verifyAccess(ep, tok, t).err

\* a ChangePin that decrypts the packet before it pads the PINs
ChangePinResDecryptFirst(ep, oldpinRaw, newpinRaw, oracle) ==
    LET oldpin == padPin(oldpinRaw)
        newpin == padPin(newpinRaw)
        dec == decryptPacket(ep)
    IN  IF dec.err # OK THEN dec.err
        ELSE IF oldpin.err # OK THEN oldpin.err
        ELSE IF newpin.err # OK THEN newpin.err
        ELSE IF ~hmacEqual(dec.p.pin, oldpin.val) THEN ErrInvalidPin
        ELSE IF oracle # "ok" THEN ErrInternal
        ELSE OK

ChangePinRes(ep, oldpinRaw, newpinRaw, oracle) ==
    LET oldpin == padPin(oldpinRaw)
        newpin == padPin(newpinRaw)
        dec == decryptPacket(ep)
    IN  IF oldpin.err # OK THEN oldpin.err
        ELSE IF newpin.err # OK THEN newpin.err
        ELSE IF dec.err # OK THEN dec.err
        ELSE IF ~hmacEqual(dec.p.pin, oldpin.val) THEN ErrInvalidPin
        ELSE IF oracle # "ok" THEN ErrInternal
        ELSE OK

\* a ChangePin that builds a new packet and loses the secret
ChangePinPacketNewSecret(ep, newpinRaw, id) ==
    encryptPacket([pin |-> padPin(newpinRaw).val, secret |-> 0, id |-> id])

\* the packet a successful ChangePin returns, with id the fresh 32 bytes
ChangePinPacket(ep, newpinRaw, id) ==
    encryptPacket([decryptPacket(ep).p EXCEPT !.pin = padPin(newpinRaw).val,
                                               !.id = id])

KeysTrusted(keyIDs) == \A i \in 1..Len(keyIDs) : keyIDs[i] \in trustedKeys

\* a GenerateCommitments that verifies access before it resolves the keys
GenerateCommitmentsResAccessFirst(ep, tok, keyIDs, oracle, t) ==
    IF verifyAccess(ep, tok, t).err # OK THEN verifyAccess(ep, tok, t).err
    ELSE IF ~KeysTrusted(keyIDs) THEN ErrKeyNotFound
    ELSE IF oracle # "ok" THEN ErrInternal
    ELSE OK

GenerateCommitmentsRes(ep, tok, keyIDs, oracle, t) ==
    IF ~KeysTrusted(keyIDs) THEN ErrKeyNotFound
    ELSE IF verifyAccess(ep, tok, t).err # OK THEN verifyAccess(ep, tok, t).err
    ELSE IF oracle # "ok" THEN ErrInternal
    ELSE OK

\* a bound that is off by one
ChallengeOKStrict(challenge) == ~(challenge.bits >= Lh \/ challenge.sign < 0)

ChallengeOK(challenge) == ~(challenge.bits > Lh \/ challenge.sign < 0)

\* a check that accepts no key id but K1
GenerateResponseCheckOneKey(ep, tok, challenge, keyID, t) ==
    IF ~ChallengeOK(challenge) THEN ErrInvalidChallenge
    ELSE IF keyID # "K1" THEN ErrKeyNotFound
    ELSE verifyAccess(ep, tok, t).err

\* the error GenerateResponse returns before it touches the store (OK: none)
GenerateResponseCheck(ep, tok, challenge, keyID, t) ==
    IF ~ChallengeOK(challenge) THEN ErrInvalidChallenge
    ELSE IF keyID \notin trustedKeys THEN ErrKeyNotFound
    ELSE verifyAccess(ep, tok, t).err

GenerateResponseRes(ep, tok, commitID, challenge, keyID, d, t) ==
    IF GenerateResponseCheck(ep, tok, challenge, keyID, t) # OK
    THEN GenerateResponseCheck(ep, tok, challenge, keyID, t)
    ELSE IF ~mapHas(d, commitID) THEN ErrUnknownCommit
    ELSE OK

\* a GenerateResponse that deletes the record before its checks
GenerateResponseStoreEager(ep, tok, commitID, challenge, keyID, d, t) ==
    mapDelete(d, commitID)

\* the store after GenerateResponse: lookup, then delete, under the lock
GenerateResponseStore(ep, tok, commitID, challenge, keyID, d, t) ==
    IF GenerateResponseCheck(ep, tok, challenge, keyID, t) # OK THEN d
    ELSE mapDelete(d, commitID)

\* ------------------------------------------------------------ history kept
\* op returned res; cid: the commit id given or returned; pid: the id inside
\* the packet given (returned, for the operations that build one); tid: the
\* token_id of the token given (returned, for ValidatePin; for ChangePin the
\* id of the new packet); sig: the signature on the token given; pin: the PIN
\* given (ChangePin: the old one); seen: what earlier GenerateResponse calls
\* on cid had returned; sub: the sub claim of the token GenerateResponse
\* returned
NoCall ==
    [op |-> "none", res |-> OK, cid |-> 0, pid |-> 0, tid |-> 0, sig |-> "",
     pin |-> <<>>, seen |-> "none", sub |-> ""]
Returned(op, res, cid, pid, tid) ==
    last' = [NoCall EXCEPT !.op = op, !.res = res, !.cid = cid, !.pid = pid,
                           !.tid = tid,
                           !.seen = IF op = "GenerateResponse"
                                    THEN respSeen[cid] ELSE "none"]
ReturnedTok(op, res, cid, pid, tok) ==
    last' = [NoCall EXCEPT !.op = op, !.res = res, !.cid = cid, !.pid = pid,
                           !.tid = tok.token_id.val, !.sig = tok.sig,
                           !.seen = IF op = "GenerateResponse"
                                    THEN respSeen[cid] ELSE "none",
                           !.sub = IF op = "GenerateResponse" /\ res = OK
                                   THEN ResponseToken(now).sub ELSE ""]
ReturnedPin(op, res, pid, tid, pin) ==
    last' = [NoCall EXCEPT !.op = op, !.res = res, !.pid = pid, !.tid = tid,
                           !.pin = pin]

\* owner of a record just stored for the packet with id pid, and of none
Put(pid) == [put |-> pid, got |-> 0]
NoOwner == [c \in CommitIDs |-> Put(0)]

\* what the calls on a commit id returned since it was drawn: "none", then
\* "rejected" (only errors before the fetch), "fetched" (some call reached the
\* fetch, none succeeded), "answered" (a response was issued)
SeenAfter(seen, res) ==
    IF res = OK \/ seen = "answered" THEN "answered"
    ELSE IF res = ErrUnknownCommit \/ seen = "fetched" THEN "fetched"
    ELSE "rejected"

\* ---------------------------------------------------- sequential operations
\* the packets made so far by GenerateKeyshareSecret and
\* DangerousBuildKeyshareSecret
Roots == Cardinality({i \in DOMAIN lineage : lineage[i].anc = {}})

GenerateKeyshareSecret(pinRaw, secret, oracle) ==
    LET res == GenerateKeyshareSecretRes(pinRaw, oracle)
        p == [pin |-> padPin(pinRaw).val, secret |-> secret, id |-> nextId]
    IN  /\ Returned("GenerateKeyshareSecret", res, 0, IF res = OK THEN nextId ELSE 0, 0)
        /\ IF res = OK
           THEN /\ nextId <= MaxPacketIDs
                /\ Roots < MaxRoots
                /\ packets' = packets \cup {encryptPacket(p)}
                /\ nextId' = nextId + 1
                /\ lineage' = (nextId :> [root |-> secret, pin |-> pinRaw,
                                           anc |-> {}]) @@ lineage
           ELSE UNCHANGED <<packets, nextId, lineage>>
        /\ UNCHANGED <<now, ticks, tokens, nextCommit, commitmentData, respSeen,
                       answeredEver, answers, owner, keyVars, thrVars>>

DangerousBuildKeyshareSecret(pinRaw, secret, oracle) ==
    LET res == DangerousBuildKeyshareSecretRes(pinRaw, secret, oracle)
        p == [pin |-> padPin(pinRaw).val, secret |-> secret, id |-> nextId]
    IN  /\ Returned("DangerousBuildKeyshareSecret", res, 0,
                    IF res = OK THEN nextId ELSE 0, 0)
        /\ IF res = OK
           THEN /\ nextId <= MaxPacketIDs
                /\ Roots < MaxRoots
                /\ packets' = packets \cup {encryptPacket(p)}
                /\ nextId' = nextId + 1
                /\ lineage' = (nextId :> [root |-> secret, pin |-> pinRaw,
                                           anc |-> {}]) @@ lineage
           ELSE UNCHANGED <<packets, nextId, lineage>>
        /\ UNCHANGED <<now, ticks, tokens, nextCommit, commitmentData, respSeen,
                       answeredEver, answers, owner, keyVars, thrVars>>

\* skew: the seconds the clock advances between the two time.Now() reads
ValidatePin(ep, pin, userID, skew) ==
    LET res == ValidatePinRes(ep, pin)
        tok == ValidatePinToken(ep, userID, now, now + skew)
    IN  /\ ReturnedPin("ValidatePin", res, ep.ct.id,
                        IF res = OK THEN ep.ct.id ELSE 0, pin)
        /\ IF res = OK
           THEN /\ tok \in tokens \/ Cardinality(tokens) < MaxTokens
                /\ tokens' = tokens \cup {tok}
                /\ now' = now + skew
           ELSE UNCHANGED <<tokens, now>>
        /\ UNCHANGED <<ticks, packets, nextId, nextCommit, commitmentData,
                       lineage, respSeen, answeredEver, answers, owner, keyVars,
                       thrVars>>

ValidateJWT(ep, tok) ==
    /\ ReturnedTok("ValidateJWT", ValidateJWTRes(ep, tok, now), 0, ep.ct.id, tok)
    /\ UNCHANGED <<now, ticks, packets, tokens, nextId, nextCommit,
                   commitmentData, lineage, respSeen, answeredEver, answers,
                   owner, keyVars, thrVars>>

ChangePin(ep, oldpinRaw, newpinRaw, oracle) ==
    LET res == ChangePinRes(ep, oldpinRaw, newpinRaw, oracle)
    IN  /\ ReturnedPin("ChangePin", res, ep.ct.id,
                        IF res = OK THEN nextId ELSE 0, oldpinRaw)
        /\ IF res = OK
           THEN /\ nextId <= MaxPacketIDs
                /\ packets' = packets \cup {ChangePinPacket(ep, newpinRaw, nextId)}
                /\ nextId' = nextId + 1
                /\ lineage' =
                     (nextId :> [root |-> lineage[ep.ct.id].root,
                                 pin |-> newpinRaw,
                                 anc |-> lineage[ep.ct.id].anc \cup {ep.ct.id}])
                     @@ lineage
           ELSE UNCHANGED <<packets, nextId, lineage>>
        /\ UNCHANGED <<now, ticks, tokens, nextCommit, commitmentData, respSeen,
                       answeredEver, answers, owner, keyVars, thrVars>>

GenerateCommitments(ep, tok, keyIDs, oracle, commitID) ==
    LET res == GenerateCommitmentsRes(ep, tok, keyIDs, oracle, now)
    IN  /\ ReturnedTok("GenerateCommitments", res,
                        IF res = OK THEN commitID ELSE 0, ep.ct.id, tok)
        /\ IF res = OK
           THEN /\ nextCommit <= MaxCommits
                /\ commitmentData' = mapInsert(commitmentData, commitID, nextCommit)
                /\ nextCommit' = nextCommit + 1
                /\ respSeen' = [respSeen EXCEPT ![commitID] = "none"]
                /\ owner' = [owner EXCEPT ![commitID] = Put(ep.ct.id)]
           ELSE UNCHANGED <<commitmentData, nextCommit, respSeen, owner>>
        /\ UNCHANGED <<now, ticks, packets, tokens, nextId, lineage,
                       answeredEver, answers, keyVars, thrVars>>

GenerateResponse(ep, tok, commitID, challenge, keyID) ==
    LET res == GenerateResponseRes(ep, tok, commitID, challenge, keyID,
                                   commitmentData, now)
        commit == mapGet(commitmentData, commitID)
    IN  /\ ReturnedTok("GenerateResponse", res, commitID, ep.ct.id, tok)
        /\ commitmentData' = GenerateResponseStore(ep, tok, commitID, challenge,
                                                   keyID, commitmentData, now)
        /\ respSeen' = [respSeen EXCEPT ![commitID] = SeenAfter(@, res)]
        /\ IF res = OK
           THEN /\ answeredEver' = answeredEver \cup {commitID}
                /\ answers' = [answers EXCEPT ![commit] = @ + 1]
                /\ owner' = [owner EXCEPT ![commitID].got = ep.ct.id]
           ELSE UNCHANGED <<answeredEver, answers, owner>>
        /\ UNCHANGED <<now, ticks, packets, tokens, nextId, nextCommit, lineage,
                       keyVars, thrVars>>

\* the clock advances by a second, or to just before, onto or past the
\* expiry of a token issued now
TickSteps == {1, TokenLifetime - 1, TokenLifetime, TokenLifetime + 1}

Tick(d) ==
    /\ ticks < MaxTicks
    /\ now' = now + d
    /\ ticks' = ticks + 1
    /\ Returned("Tick", OK, 0, 0, 0)
    /\ UNCHANGED <<packets, tokens, nextId, nextCommit, commitmentData, lineage,
                   respSeen, answeredEver, answers, owner, keyVars, thrVars>>

\* ---------------------------------------------------------------- threads
Threads == 1..NThreads

Init ==
    /\ now = 0
    /\ ticks = 0
    /\ packets = {}
    /\ tokens = {}
    /\ nextId = 1
    /\ nextCommit = 1
    /\ trustedKeys = TrustedKeyIDs
    /\ signKey = "signKey"
    /\ commitmentData = <<>>
    /\ commitmentMutex = 0
    /\ last = NoCall
    /\ lineage = <<>>
    /\ respSeen = [c \in CommitIDs |-> "none"]
    /\ answeredEver = {}
    /\ answers = [s \in 1..MaxCommits |-> 0]
    /\ owner = NoOwner
    /\ pc = [t \in Threads |-> "idle"]
    /\ loc = [t \in Threads |-> 0]
    /\ ret = [t \in Threads |-> 0]
    /\ lin = <<>>

\* The lifecycle operations (no proof session runs): packets are created,
\* PINs validated and changed, tokens issued and verified, the clock advances.
Next ==
    \/ \E pin \in SessionPins, s \in Secrets, o \in Oracles :
         GenerateKeyshareSecret(pin, s, o)
    \/ \E pin \in SessionPins, s \in Secrets \cup {BadSecret}, o \in Oracles :
         DangerousBuildKeyshareSecret(pin, s, o)
    \/ \E ep \in OfferedPackets, pin \in SessionPins, u \in UserIDs :
         ValidatePin(ep, pin, u, 0)
    \/ \E ep \in OfferedPackets, tok \in OfferedTokens : ValidateJWT(ep, tok)
    \/ /\ nextId <= MaxRoots + MaxChanges
       /\ \E ep \in OfferedPackets, old \in SessionPins, new \in SessionPins,
             o \in Oracles : ChangePin(ep, old, new, o)
    \/ \E d \in TickSteps : Tick(d)

Spec == Init /\ [][Next]_vars

\* PIN checks: one packet is generated with any PIN of PinInputs, and every
\* PIN of PinInputs is then tried on it.
NextPin ==
    \/ /\ packets = {}
       /\ \E pin \in PinInputs : GenerateKeyshareSecret(pin, 1, "ok")
    \/ \E ep \in OfferedPackets, pin \in PinInputs : ValidatePin(ep, pin, "u", 0)

SpecPin == Init /\ [][NextPin]_vars

\* The proof sessions: MUsers users hold a packet each (PIN <<1>>) and an
\* access token issued for it at time 0, as GenerateKeyshareSecret and
\* ValidatePin leave them; commitments and responses are requested with every
\* offered packet and token while the clock advances.
Users == 1..MUsers
UserPacket(u) ==
    encryptPacket([pin |-> padPin(<<1>>).val,
                   secret |-> ((u - 1) % 2) + 1, id |-> u])

InitProto ==
    /\ now = 0
    /\ ticks = 0
    /\ trustedKeys = TrustedKeyIDs
    /\ signKey = "signKey"
    /\ packets = {UserPacket(u) : u \in Users}
    /\ tokens = {ValidatePinToken(UserPacket(u), "u", 0, 0) : u \in Users}
    /\ nextId = MUsers + 1
    /\ nextCommit = 1
    /\ commitmentData = <<>>
    /\ commitmentMutex = 0
    /\ last = NoCall
    /\ lineage = [u \in Users |->
                    [root |-> ((u - 1) % 2) + 1, pin |-> <<1>>,
                     anc |-> {}]]
    /\ respSeen = [c \in CommitIDs |-> "none"]
    /\ answeredEver = {}
    /\ answers = [s \in 1..MaxCommits |-> 0]
    /\ owner = NoOwner
    /\ pc = [t \in Threads |-> "idle"]
    /\ loc = [t \in Threads |-> 0]
    /\ ret = [t \in Threads |-> 0]
    /\ lin = <<>>

NextProto ==
    \/ \E ep \in OfferedPackets, tok \in OfferedTokens, ks \in KeyLists,
          o \in Oracles, c \in CommitIDs : GenerateCommitments(ep, tok, ks, o, c)
    \/ \E ep \in OfferedPackets, tok \in OfferedTokens, c \in CommitIDs,
          ch \in Challenges, k \in KeyIDs : GenerateResponse(ep, tok, c, ch, k)
    \/ \E d \in TickSteps : Tick(d)

SpecProto == InitProto /\ [][NextProto]_vars

\* Chains of PIN changes: the user's PIN is changed again and again while the
\* token issued for the first packet is presented with every packet there is.
ChainPins == {<<1>>, <<0, 1>>}
NextChain ==
    \/ \E ep \in packets, old \in ChainPins, new \in ChainPins :
         ChangePin(ep, old, new, "ok")
    \/ \E ep \in packets, pin \in ChainPins : ValidatePin(ep, pin, "u", 0)
    \/ \E ep \in packets, tok \in tokens : ValidateJWT(ep, tok)
    \/ \E ep \in packets, tok \in tokens, c \in CommitIDs :
         GenerateCommitments(ep, tok, <<"K1">>, "ok", c)
    \/ \E ep \in packets, tok \in tokens, c \in CommitIDs :
         GenerateResponse(ep, tok, c, [sign |-> 1, bits |-> 6], "K1")

SpecChain == InitProto /\ [][NextChain]_vars

\* ------------------------------------------------------ concurrent sessions
\* NThreads threads each run GenerateCommitments and then GenerateResponse on
\* the packet and token of a user.  A call is split where other threads can
\* interleave: its checks, Lock, the map access(es), Unlock and return.
ThreadUser(t) == ((t - 1) % MUsers) + 1
ThreadPacket(t) == UserPacket(ThreadUser(t))
ThreadToken(t) == ValidatePinToken(ThreadPacket(t), "u", 0, 0)
ThreadKeyLists == {<<"K1">>, <<"KX">>}
ThreadChallenges == {[sign |-> 1, bits |-> 6], [sign |-> 1, bits |-> Lh + 1]}
\* key ids a thread asks a response for
ThreadKeys == {"K1", "K2"}
NoChallenge == [sign |-> 0, bits |-> 0]
NoLocals ==
    [keyIDs |-> <<>>, commitID |-> 0, commitSecret |-> 0,
     challenge |-> NoChallenge, keyID |-> "", commit |-> 0, ok |-> FALSE]

\* a Lock that does not wait
MutexLockNoWait(t) == commitmentMutex' = t

\* c.commitmentMutex.Lock(): blocks while another thread holds the mutex
MutexLock(t) ==
    /\ commitmentMutex = 0
    /\ commitmentMutex' = t

\* c.commitmentMutex.Unlock()
MutexUnlock(t) == commitmentMutex' = 0

\* the call as it enters the order of store accesses
Linearized(t, op, commitID, challenge, keyID, secret) ==
    lin' = Append(lin, [t |-> t, op |-> op, commitID |-> commitID,
                        challenge |-> challenge, keyID |-> keyID,
                        secret |-> secret])

\* GenerateCommitments up to the Lock: key list, access, commit secret (a
\* fresh value: the thread's own number, as each thread commits once), id
gcCheck(t, keyIDs, commitID) ==
    LET res == GenerateCommitmentsRes(ThreadPacket(t), ThreadToken(t), keyIDs,
                                      "ok", now)
    IN  /\ pc[t] = "gc_start"
        /\ IF res = OK
           THEN /\ pc' = [pc EXCEPT ![t] = "gc_lock"]
                /\ loc' = [loc EXCEPT ![t].keyIDs = keyIDs,
                                      ![t].commitID = commitID,
                                      ![t].commitSecret = t]
                /\ UNCHANGED <<ret, lin>>
           ELSE /\ pc' = [pc EXCEPT ![t] = "gr_start"]
                /\ ret' = [ret EXCEPT ![t].gc = res]
                /\ Linearized(t, "GenerateCommitments", 0, NoChallenge, "KX", 0)
                /\ UNCHANGED loc
        /\ UNCHANGED <<seqVars, commitmentData, commitmentMutex, keyVars>>

gcLock(t) ==
    /\ pc[t] = "gc_lock"
    /\ MutexLock(t)
    /\ pc' = [pc EXCEPT ![t] = "gc_store"]
    /\ UNCHANGED <<seqVars, commitmentData, keyVars, loc, ret, lin>>

gcStore(t) ==
    /\ pc[t] = "gc_store"
    /\ commitmentData' = mapInsert(commitmentData, loc[t].commitID,
                                   loc[t].commitSecret)
    /\ Linearized(t, "GenerateCommitments", loc[t].commitID, NoChallenge,
                  Head(loc[t].keyIDs), loc[t].commitSecret)
    /\ owner' = [owner EXCEPT ![loc[t].commitID] = Put(ThreadPacket(t).ct.id)]
    /\ pc' = [pc EXCEPT ![t] = "gc_unlock"]
    /\ UNCHANGED <<now, ticks, packets, tokens, nextId, nextCommit, last,
                   lineage, respSeen, answeredEver, answers, commitmentMutex,
                   keyVars, loc, ret>>

gcUnlock(t) ==
    /\ pc[t] = "gc_unlock"
    /\ MutexUnlock(t)
    /\ ret' = [ret EXCEPT ![t].gc = OK]
    /\ pc' = [pc EXCEPT ![t] = "gr_start"]
    /\ UNCHANGED <<seqVars, commitmentData, keyVars, loc, lin>>

\* GenerateResponse up to the Lock: challenge, key, access
grCheck(t, commitID, challenge, keyID) ==
    LET res == GenerateResponseCheck(ThreadPacket(t), ThreadToken(t), challenge,
                                     keyID, now)
    IN  /\ pc[t] = "gr_start"
        /\ loc' = [loc EXCEPT ![t].commitID = commitID,
                              ![t].challenge = challenge,
                              ![t].keyID = keyID]
        /\ IF res = OK
           THEN /\ pc' = [pc EXCEPT ![t] = "gr_lock"]
                /\ UNCHANGED <<ret, lin>>
           ELSE /\ pc' = [pc EXCEPT ![t] = "done"]
                /\ ret' = [ret EXCEPT ![t].gr = res]
                /\ Linearized(t, "GenerateResponse", commitID, challenge, keyID, 0)
        /\ UNCHANGED <<seqVars, commitmentData, commitmentMutex, keyVars>>

grLock(t) ==
    /\ pc[t] = "gr_lock"
    /\ MutexLock(t)
    /\ pc' = [pc EXCEPT ![t] = "gr_lookup"]
    /\ UNCHANGED <<seqVars, commitmentData, keyVars, loc, ret, lin>>

\* commit, ok := c.commitmentData[commitID]
grLookup(t) ==
    /\ pc[t] = "gr_lookup"
    /\ loc' = [loc EXCEPT ![t].commit = mapGet(commitmentData, loc[t].commitID),
                          ![t].ok = mapHas(commitmentData, loc[t].commitID)]
    /\ Linearized(t, "GenerateResponse", loc[t].commitID, loc[t].challenge,
                  loc[t].keyID, 0)
    /\ owner' = IF mapHas(commitmentData, loc[t].commitID)
                THEN [owner EXCEPT ![loc[t].commitID].got = ThreadPacket(t).ct.id]
                ELSE owner
    /\ pc' = [pc EXCEPT ![t] = "gr_delete"]
    /\ UNCHANGED <<now, ticks, packets, tokens, nextId, nextCommit, last,
                   lineage, respSeen, answeredEver, answers, commitmentData,
                   commitmentMutex, keyVars, ret>>

\* delete(c.commitmentData, commitID)
grDelete(t) ==
    /\ pc[t] = "gr_delete"
    /\ commitmentData' = mapDelete(commitmentData, loc[t].commitID)
    /\ pc' = [pc EXCEPT ![t] = "gr_unlock"]
    /\ UNCHANGED <<seqVars, commitmentMutex, keyVars, loc, ret, lin>>

\* Unlock, then UnknownCommit or the signed response
grUnlock(t) ==
    /\ pc[t] = "gr_unlock"
    /\ MutexUnlock(t)
    /\ ret' = [ret EXCEPT ![t].gr = IF loc[t].ok THEN OK ELSE ErrUnknownCommit]
    /\ answers' = IF loc[t].ok
                  THEN [answers EXCEPT ![loc[t].commit] = @ + 1]
                  ELSE answers
    /\ pc' = [pc EXCEPT ![t] = "done"]
    /\ UNCHANGED <<now, ticks, packets, tokens, nextId, nextCommit, last,
                   lineage, respSeen, answeredEver, owner, commitmentData,
                   keyVars, loc, lin>>

InitConc ==
    /\ now = 0
    /\ ticks = 0
    /\ trustedKeys = TrustedKeyIDs
    /\ signKey = "signKey"
    /\ packets = {UserPacket(u) : u \in Users}
    /\ tokens = {ValidatePinToken(UserPacket(u), "u", 0, 0) : u \in Users}
    /\ nextId = MUsers + 1
    /\ nextCommit = 1
    /\ commitmentData = <<>>
    /\ commitmentMutex = 0
    /\ last = NoCall
    /\ lineage = [u \in Users |->
                    [root |-> ((u - 1) % 2) + 1, pin |-> <<1>>, anc |-> {}]]
    /\ respSeen = [c \in CommitIDs |-> "none"]
    /\ answeredEver = {}
    /\ answers = [s \in 1..NThreads |-> 0]
    /\ owner = NoOwner
    /\ pc = [t \in Threads |-> "gc_start"]
    /\ loc = [t \in Threads |-> NoLocals]
    /\ ret = [t \in Threads |-> [gc |-> "", gr |-> ""]]
    /\ lin = <<>>

NextConc ==
    \E t \in Threads :
       \/ \E ks \in ThreadKeyLists, c \in CommitIDs : gcCheck(t, ks, c)
       \/ gcLock(t)
       \/ gcStore(t)
       \/ gcUnlock(t)
       \/ \E c \in CommitIDs, ch \in ThreadChallenges, k \in ThreadKeys :
            grCheck(t, c, ch, k)
       \/ grLock(t)
       \/ grLookup(t)
       \/ grDelete(t)
       \/ grUnlock(t)

SpecConc == InitConc /\ [][NextConc]_vars

\* Whole sessions on a fresh engine: a user's packet is built, the PIN is
\* validated (the clock may advance between the two time.Now() reads of
\* ValidatePin) and changed, commitments and responses are requested, and
\* the clock advances.
SessionTicks == {1, TokenLifetime + 1}
NextSession ==
    \/ \E o \in Oracles : GenerateKeyshareSecret(<<1>>, 1, o)
    \/ \E o \in Oracles : DangerousBuildKeyshareSecret(<<1>>, 2, o)
    \/ \E ep \in packets, pin \in ChainPins, skew \in Skews :
         ValidatePin(ep, pin, "u", skew)
    \/ \E ep \in packets, tok \in tokens : ValidateJWT(ep, tok)
    \/ /\ nextId <= MaxRoots + MaxChanges
       /\ \E ep \in packets : ChangePin(ep, <<1>>, <<0, 1>>, "ok")
    \/ \E ep \in packets, tok \in tokens, ks \in ThreadKeyLists, o \in Oracles,
          c \in CommitIDs : GenerateCommitments(ep, tok, ks, o, c)
    \/ \E ep \in packets, tok \in tokens, c \in CommitIDs,
          ch \in ThreadChallenges : GenerateResponse(ep, tok, c, ch, "K1")
    \/ \E d \in SessionTicks : Tick(d)

SpecSession == Init /\ [][NextSession]_vars

\* Sessions side by side: user "u" holds the packet built for them (id 1) and
\* the packet ChangePin made of it (id 3), user "v" holds another packet
\* (id 2); a token was issued for each of the three at time 0.  Commitments
\* and responses are requested with every packet and token.
CrossChanged == ChangePinPacket(UserPacket(1), <<0, 1>>, 3)
CrossPackets == {UserPacket(1), UserPacket(2), CrossChanged}
CrossTokens ==
    {ValidatePinToken(UserPacket(1), "u", 0, 0),
     ValidatePinToken(UserPacket(2), "v", 0, 0),
     ValidatePinToken(CrossChanged, "u", 0, 0)}
CrossLineage ==
    (1 :> [root |-> 1, pin |-> <<1>>, anc |-> {}])
        @@ (2 :> [root |-> 2, pin |-> <<1>>, anc |-> {}])
        @@ (3 :> [root |-> 1, pin |-> <<0, 1>>, anc |-> {1}])

InitCross ==
    /\ now = 0
    /\ ticks = 0
    /\ trustedKeys = TrustedKeyIDs
    /\ signKey = "signKey"
    /\ packets = CrossPackets
    /\ tokens = CrossTokens
    /\ nextId = 4
    /\ nextCommit = 1
    /\ commitmentData = <<>>
    /\ commitmentMutex = 0
    /\ last = NoCall
    /\ lineage = CrossLineage
    /\ respSeen = [c \in CommitIDs |-> "none"]
    /\ answeredEver = {}
    /\ answers = [s \in 1..MaxCommits |-> 0]
    /\ owner = NoOwner
    /\ pc = [t \in Threads |-> "idle"]
    /\ loc = [t \in Threads |-> 0]
    /\ ret = [t \in Threads |-> 0]
    /\ lin = <<>>

NextCross ==
    \/ \E ep \in packets, tok \in tokens, c \in CommitIDs :
         GenerateCommitments(ep, tok, <<"K1">>, "ok", c)
    \/ \E ep \in packets, tok \in tokens, c \in CommitIDs :
         GenerateResponse(ep, tok, c, [sign |-> 1, bits |-> 6], "K1")
    \/ \E d \in SessionTicks : Tick(d)

SpecCross == InitCross /\ [][NextCross]_vars

\* ==================================================================== claims
\* what a caller means by valid inputs, said without the code's checks
SignedByEngine(tok) == tok \in tokens /\ tok.alg = "RS256" /\ tok.sig = "signKey"
Unexpired(tok, t) == t < tok.exp
BoundTo(tok, ep) ==
    /\ ep \in packets
    /\ tok.token_id = [kind |-> "b64", val |-> ep.ct.id]
ValidSession(ep, tok) ==
    SignedByEngine(tok) /\ Unexpired(tok, now) /\ BoundTo(tok, ep)
InBounds(challenge) == challenge.sign >= 0 /\ challenge.bits <= Lh
EarlyErrors ==
    {ErrInvalidChallenge, ErrKeyNotFound, ErrInvalidJWT, ErrInvalidPacket}

\* C1 as stated: once any GenerateResponse call on commit id c has returned,
\* with a response or with any error, every further GenerateResponse on c
\* returns UnknownCommit (no GenerateCommitments having drawn c in between).
C1_AnyReturnConsumes ==
    \A ep \in OfferedPackets, tok \in OfferedTokens, c \in CommitIDs,
       ch \in Challenges, k \in KeyIDs :
        respSeen[c] # "none" =>
            GenerateResponseRes(ep, tok, c, ch, k, commitmentData, now)
                = ErrUnknownCommit

\* C1 amended: once a GenerateResponse call on commit id c got past the
\* challenge, key and access checks (it returned a response or UnknownCommit),
\* every further GenerateResponse on c that gets past those checks returns
\* UnknownCommit (no GenerateCommitments having drawn c in between).
C1_CommitSingleUse ==
    \A ep \in OfferedPackets, tok \in OfferedTokens, c \in CommitIDs,
       ch \in Challenges, k \in KeyIDs :
        LET res == GenerateResponseRes(ep, tok, c, ch, k, commitmentData, now)
        IN  (respSeen[c] \in {"fetched", "answered"} /\ res \notin EarlyErrors)
                => res = ErrUnknownCommit

\* a second call that reached the fetch after a first one that had
C1_SecondCallUnknown ==
    /\ last.op = "GenerateResponse"
    /\ last.seen = "fetched"
    /\ last.res = ErrUnknownCommit

\* C2 as stated: after a response was issued on commit id c, every later
\* GenerateResponse on c with valid inputs returns UnknownCommit.
C2_EveryLaterCall ==
    \A ep \in OfferedPackets, tok \in OfferedTokens, c \in CommitIDs,
       ch \in Challenges, k \in KeyIDs :
        (c \in answeredEver /\ ValidSession(ep, tok) /\ InBounds(ch)
            /\ k \in TrustedKeyIDs)
        => GenerateResponseRes(ep, tok, c, ch, k, commitmentData, now)
               = ErrUnknownCommit

\* C2 amended: after a response was issued on commit id c, every later
\* GenerateResponse on c with valid inputs returns UnknownCommit until a
\* GenerateCommitments draws c again; and no commit secret is ever used for
\* two responses.
C2_CommitReplay ==
    /\ \A ep \in OfferedPackets, tok \in OfferedTokens, c \in CommitIDs,
          ch \in Challenges, k \in KeyIDs :
           (respSeen[c] = "answered" /\ ValidSession(ep, tok) /\ InBounds(ch)
               /\ k \in TrustedKeyIDs)
           => GenerateResponseRes(ep, tok, c, ch, k, commitmentData, now)
                  = ErrUnknownCommit
    /\ \A s \in DOMAIN answers : answers[s] <= 1

\* a replay with valid inputs of a commit id that was answered
C2_ReplayRefused ==
    /\ last.op = "GenerateResponse"
    /\ last.seen = "answered"
    /\ last.res = ErrUnknownCommit
    /\ last.sig = "signKey"
    /\ last.pid = last.tid

\* C3: a GenerateResponse call that fails with InvalidChallenge, KeyNotFound,
\* InvalidJWT or InvalidPacket leaves the commitment store as it was, and if
\* the record of its commit id is stored, GenerateResponse on that id with
\* valid inputs succeeds afterwards.
C3_FailedResponseKeepsCommit ==
    /\ [][(last'.op = "GenerateResponse" /\ last'.res \in EarlyErrors)
            => commitmentData' = commitmentData]_vars
    /\ [](  (last.op = "GenerateResponse" /\ last.res \in EarlyErrors
               /\ mapHas(commitmentData, last.cid))
            => \A ep \in OfferedPackets, tok \in OfferedTokens,
                  ch \in Challenges, k \in KeyIDs :
                   (ValidSession(ep, tok) /\ InBounds(ch) /\ k \in TrustedKeyIDs)
                   => GenerateResponseRes(ep, tok, last.cid, ch, k,
                                          commitmentData, now) = OK)

\* a response issued on a commit id after a call on it was rejected
C3_AnsweredAfterRejection ==
    /\ last.op = "GenerateResponse"
    /\ last.seen = "rejected"
    /\ last.res = OK

\* C5 as stated: a commit record is inserted, and a response is issued, only
\* by a call whose token was signed by the engine, is unexpired (now < exp)
\* and carries the id of the packet given in the same call.
C5_TokenGatedAuthority ==
    \A ep \in OfferedPackets, tok \in OfferedTokens :
        /\ \A ks \in KeyLists, o \in Oracles :
             GenerateCommitmentsRes(ep, tok, ks, o, now) = OK
                 => ValidSession(ep, tok)
        /\ \A c \in CommitIDs, ch \in Challenges, k \in KeyIDs :
             GenerateResponseRes(ep, tok, c, ch, k, commitmentData, now) = OK
                 => ValidSession(ep, tok)

\* every store the engine can hold within the bounds
AnyStores == UNION {[S -> 1..MaxCommits] : S \in SUBSET CommitIDs}
AllTrusted(keyIDs) == \A i \in 1..Len(keyIDs) : keyIDs[i] \in TrustedKeyIDs

\* C4: a token issued for a packet is refused with every packet that descends
\* from it by PIN changes: ValidateJWT returns InvalidJWT, and
\* GenerateCommitments and GenerateResponse never succeed (they return
\* InvalidJWT once their key and challenge checks pass).
C4_TokenPacketBinding ==
    /\ (last.op \in {"ValidateJWT", "GenerateCommitments", "GenerateResponse"}
          /\ last.sig = "signKey" /\ last.tid \in lineage[last.pid].anc)
       => last.res = ErrInvalidJWT
    /\ \A tok \in tokens, ep \in packets :
        tok.token_id.val \in lineage[ep.ct.id].anc =>
            /\ ValidateJWTRes(ep, tok, now) = ErrInvalidJWT
            /\ \A ks \in KeyLists, o \in Oracles :
                 LET res == GenerateCommitmentsRes(ep, tok, ks, o, now)
                 IN  /\ res # OK
                     /\ AllTrusted(ks) => res = ErrInvalidJWT
            /\ \A c \in CommitIDs, ch \in Challenges, k \in KeyIDs,
                  d \in AnyStores :
                 LET res == GenerateResponseRes(ep, tok, c, ch, k, d, now)
                 IN  /\ res # OK
                     /\ (InBounds(ch) /\ k \in TrustedKeyIDs)
                            => res = ErrInvalidJWT

\* a token of the engine refused by GenerateResponse with a packet two PIN
\* changes after its own, while a record is stored under the commit id given
C4_StaleTokenRefused ==
    /\ last.op = "GenerateResponse"
    /\ last.res = ErrInvalidJWT
    /\ last.sig = "signKey"
    /\ last.pid \in DOMAIN lineage
    /\ last.tid \in lineage[last.pid].anc
    /\ Cardinality(lineage[last.pid].anc) = 2
    /\ mapHas(commitmentData, last.cid)

\* C6 as stated: ValidatePin on the packet generated with pin returns a token
\* for pin and InvalidPin for every other PIN.
C6_OnlyThePin ==
    \A ep \in packets, q \in PinInputs :
        ValidatePinRes(ep, q) =
            IF q = lineage[ep.ct.id].pin THEN OK ELSE ErrInvalidPin

ZeroExtends(a, b) ==
    /\ Len(a) <= Len(b)
    /\ \A i \in 1..Len(b) : b[i] = IF i <= Len(a) THEN a[i] ELSE 0
SameUpToNul(a, b) == ZeroExtends(a, b) \/ ZeroExtends(b, a)

\* C6 amended: ValidatePin on the packet generated with pin returns a token
\* for pin and for every PIN of at most 64 bytes that differs from pin only
\* in trailing NUL bytes, PinTooLong for every PIN longer than 64 bytes, and
\* InvalidPin for every other PIN.
C6_PinAuthentication ==
    /\ \A ep \in packets, q \in PinInputs :
         ValidatePinRes(ep, q) =
             IF Len(q) > PinSize THEN ErrPinTooLong
             ELSE IF SameUpToNul(q, lineage[ep.ct.id].pin) THEN OK
             ELSE ErrInvalidPin
    /\ (last.op = "ValidatePin" /\ last.res = OK) =>
         \E tok \in tokens : tok.token_id = [kind |-> "b64", val |-> last.pid]

\* a token returned for a PIN that is not the one the packet was generated with
C6_NulPaddedPinAccepted ==
    /\ last.op = "ValidatePin"
    /\ last.res = OK
    /\ last.pin # lineage[last.pid].pin

\* C7 as stated: a token issued at t is accepted with its packet at every t'
\* with t <= t' < t + 180 and refused with InvalidJWT at every t' >= t + 180.
C7_TokenFreshness ==
    \A tok \in tokens, ep \in packets :
        BoundTo(tok, ep) =>
            ValidateJWTRes(ep, tok, now) =
                IF now < tok.iat + TokenLifetime THEN OK ELSE ErrInvalidJWT

\* C8: a successful ChangePin returns a packet with the same secret, the new
\* PIN padded to 64 bytes and a fresh id; so every packet carries the secret
\* its chain of PIN changes started with and validates the PIN set last.
C8_PinRotation ==
    /\ \A ep \in packets, old \in SessionPins, new \in SessionPins,
          o \in Oracles :
         ChangePinRes(ep, old, new, o) = OK =>
             LET q == decryptPacket(ChangePinPacket(ep, new, nextId))
             IN  /\ q.err = OK
                 /\ q.p.secret = ep.ct.secret
                 /\ q.p.pin = [i \in 1..PinSize |->
                                 IF i <= Len(new) THEN new[i] ELSE 0]
                 /\ \A e \in packets : e.ct.id # q.p.id
    /\ \A ep \in packets :
         /\ ep.ct.secret = lineage[ep.ct.id].root
         /\ ValidatePinRes(ep, lineage[ep.ct.id].pin) = OK

\* a packet returned by the second ChangePin of a chain, with a PIN other than
\* the old one
C8_PinChanged ==
    /\ last.op = "ChangePin"
    /\ last.res = OK
    /\ last.tid \in DOMAIN lineage
    /\ lineage[last.tid].pin # last.pin
    /\ Cardinality(lineage[last.tid].anc) = 2

\* the calls of lin run one after the other on an empty store
RECURSIVE ReplayStore(_)
ReplayStore(n) ==
    IF n = 0 THEN <<>>
    ELSE LET e == lin[n]
             d == ReplayStore(n - 1)
         IN  IF e.op = "GenerateCommitments"
             THEN IF GenerateCommitmentsRes(ThreadPacket(e.t), ThreadToken(e.t),
                                            <<e.keyID>>, "ok", now) = OK
                  THEN mapInsert(d, e.commitID, e.secret)
                  ELSE d
             ELSE GenerateResponseStore(ThreadPacket(e.t), ThreadToken(e.t),
                                        e.commitID, e.challenge, e.keyID, d, now)
ReplayRes(n) ==
    LET e == lin[n]
    IN  IF e.op = "GenerateCommitments"
        THEN GenerateCommitmentsRes(ThreadPacket(e.t), ThreadToken(e.t),
                                    <<e.keyID>>, "ok", now)
        ELSE GenerateResponseRes(ThreadPacket(e.t), ThreadToken(e.t),
                                 e.commitID, e.challenge, e.keyID,
                                 ReplayStore(n - 1), now)
AllDone == \A t \in Threads : pc[t] = "done"
HoldsMutex == {"gc_store", "gc_unlock", "gr_lookup", "gr_delete", "gr_unlock"}

\* C9: when concurrent GenerateCommitments and GenerateResponse calls have all
\* returned, their results and the store are those of the same calls run one
\* at a time in the order lin.
C9_Linearizable ==
    AllDone =>
        /\ Len(lin) = 2 * NThreads
        /\ \A n \in 1..Len(lin) :
             ReplayRes(n) = IF lin[n].op = "GenerateCommitments"
                            THEN ret[lin[n].t].gc ELSE ret[lin[n].t].gr
        /\ ReplayStore(Len(lin)) = commitmentData

\* all calls returned, two threads raced on one commit id, one was answered
C9_RaceResolved ==
    /\ AllDone
    /\ \E t1, t2 \in Threads :
         /\ t1 # t2
         /\ loc[t1].commitID = loc[t2].commitID
         /\ ret[t1].gr = OK
         /\ ret[t2].gr = ErrUnknownCommit

\* C10: the lookup and the delete of a GenerateResponse are not interleaved
\* with another thread's store access, so of the GenerateResponse calls racing
\* on one stored record at most one gets the commit secret and the others
\* return UnknownCommit.
C10_AtomicFetchDelete ==
    /\ \A t \in Threads :
         pc[t] \in HoldsMutex =>
             /\ commitmentMutex = t
             /\ \A u \in Threads \ {t} : pc[u] \notin HoldsMutex
    /\ \A t \in Threads :
         pc[t] = "gr_delete" =>
             /\ loc[t].ok = mapHas(commitmentData, loc[t].commitID)
             /\ loc[t].commit = mapGet(commitmentData, loc[t].commitID)
    /\ \A t1, t2 \in Threads :
         (t1 # t2 /\ loc[t1].ok /\ loc[t2].ok) => loc[t1].commit # loc[t2].commit
    /\ \A s \in DOMAIN answers : answers[s] <= 1
    /\ \A t \in Threads :
         (pc[t] = "done" /\ ret[t].gr \notin EarlyErrors) =>
             ret[t].gr = IF loc[t].ok THEN OK ELSE ErrUnknownCommit

\* a thread that lost the race for a record another thread was answered on
C10_LoserGetsUnknownCommit ==
    \E t1, t2 \in Threads :
        /\ t1 # t2
        /\ pc[t1] = "done" /\ pc[t2] = "done"
        /\ ret[t1].gc = OK
        /\ loc[t1].commitID = loc[t2].commitID
        /\ loc[t1].ok /\ ~loc[t2].ok
        /\ ret[t1].gr = OK
        /\ ret[t2].gr = ErrUnknownCommit

FailsDecryption(ep) == ep.mac # "ok" \/ ep.v \notin KeyVersions
TooLong(pin) == Len(pin) > PinSize
Forged(tok) == tok.alg # "RS256" \/ tok.sig # "signKey"
SomeUntrusted(keyIDs) == \E i \in 1..Len(keyIDs) : keyIDs[i] \notin TrustedKeyIDs
\* what a call that got as far as its access check returns for a packet that
\* fails decryption
TamperedAccess(tok, res) ==
    /\ res \in {ErrInvalidPacket, ErrInvalidJWT}
    /\ (SignedByEngine(tok) /\ Unexpired(tok, now)) => res = ErrInvalidPacket
    /\ (Forged(tok) \/ now > tok.exp) => res = ErrInvalidJWT

\* C11 as stated: for a packet that fails decryption, ValidatePin,
\* ValidateJWT, ChangePin, GenerateCommitments and GenerateResponse return
\* InvalidPacket whatever their other arguments are.
C11_AlwaysInvalidPacket ==
    \A ep \in OfferedPackets :
        FailsDecryption(ep) =>
            /\ \A pin \in SessionPins : ValidatePinRes(ep, pin) = ErrInvalidPacket
            /\ \A old \in SessionPins, new \in SessionPins, o \in Oracles :
                 ChangePinRes(ep, old, new, o) = ErrInvalidPacket
            /\ \A tok \in OfferedTokens :
                 /\ ValidateJWTRes(ep, tok, now) = ErrInvalidPacket
                 /\ \A ks \in KeyLists, o \in Oracles :
                      GenerateCommitmentsRes(ep, tok, ks, o, now)
                          = ErrInvalidPacket
                 /\ \A c \in CommitIDs, ch \in Challenges, k \in KeyIDs :
                      GenerateResponseRes(ep, tok, c, ch, k, commitmentData, now)
                          = ErrInvalidPacket

\* C11 amended: for a packet that fails decryption, each of the five
\* operations returns the error of a check it makes before decrypting when
\* that check fails (PinTooLong for a PIN over 64 bytes, InvalidChallenge,
\* KeyNotFound, InvalidJWT for a forged or expired token) and InvalidPacket
\* otherwise; none succeeds.
C11_TamperedPacket ==
    \A ep \in OfferedPackets :
        FailsDecryption(ep) =>
            /\ \A pin \in SessionPins :
                 ValidatePinRes(ep, pin) =
                     IF TooLong(pin) THEN ErrPinTooLong ELSE ErrInvalidPacket
            /\ \A old \in SessionPins, new \in SessionPins, o \in Oracles :
                 ChangePinRes(ep, old, new, o) =
                     IF TooLong(old) \/ TooLong(new) THEN ErrPinTooLong
                     ELSE ErrInvalidPacket
            /\ \A tok \in OfferedTokens :
                 /\ TamperedAccess(tok, ValidateJWTRes(ep, tok, now))
                 /\ \A ks \in KeyLists, o \in Oracles :
                      LET res == GenerateCommitmentsRes(ep, tok, ks, o, now)
                      IN  IF SomeUntrusted(ks) THEN res = ErrKeyNotFound
                          ELSE TamperedAccess(tok, res)
                 /\ \A c \in CommitIDs, ch \in Challenges, k \in KeyIDs :
                      LET res == GenerateResponseRes(ep, tok, c, ch, k,
                                                     commitmentData, now)
                      IN  IF ~InBounds(ch) THEN res = ErrInvalidChallenge
                          ELSE IF k \notin TrustedKeyIDs THEN res = ErrKeyNotFound
                          ELSE TamperedAccess(tok, res)

\* GenerateResponse refused for its packet alone, on a stored commit id
C11_TamperedPacketRefused ==
    /\ last.op = "GenerateResponse"
    /\ last.res = ErrInvalidPacket
    /\ last.sig = "signKey"
    /\ mapHas(commitmentData, last.cid)

\* tokens under the engine's signature whose token_id claim is absent, not a
\* string, not base64, or the id of no packet given; the response token
\* GenerateResponse signs is one of them
MalformedTokenIDs ==
    {NoTokenID, [kind |-> "notstring", val |-> 0], [kind |-> "text", val |-> 0],
     B64Encode(0)}
MalformedTokens ==
    {[tok EXCEPT !.token_id = x] : tok \in tokens, x \in MalformedTokenIDs}
        \cup {ResponseToken(now)}
Expired(tok, t) == t >= tok.exp
Defective(tok, ep) ==
    \/ tok.alg # "RS256"
    \/ tok.sig # "signKey"
    \/ Expired(tok, now)
    \/ tok.token_id.kind # "b64"
    \/ tok.token_id.val # ep.ct.id

\* C12 as stated: verifying a token with any defect (algorithm other than
\* RS256, bad signature, expired, token_id missing, not a string, not base64
\* or not the packet's id) with a packet that decrypts returns InvalidJWT.
C12_TokenErrorCollapse ==
    \A ep \in packets, tok \in OfferedTokens \cup MalformedTokens :
        Defective(tok, ep) => ValidateJWTRes(ep, tok, now) = ErrInvalidJWT

\* C13: GenerateCommitments with a key id list holding an id that is not in
\* the trusted-key registry returns KeyNotFound whatever the packet and the
\* token are, returns no commit id, and leaves the commitment store as it
\* was.
C13_KeyNotFoundFailsWhole ==
    /\ [](\A ep \in OfferedPackets, tok \in OfferedTokens, ks \in KeyLists,
             o \in Oracles :
              SomeUntrusted(ks) =>
                  GenerateCommitmentsRes(ep, tok, ks, o, now) = ErrKeyNotFound)
    /\ []((last.op = "GenerateCommitments" /\ last.res = ErrKeyNotFound)
             => last.cid = 0)
    /\ [][(last'.op = "GenerateCommitments" /\ last'.res = ErrKeyNotFound)
             => commitmentData' = commitmentData]_vars

\* KeyNotFound returned to a caller whose token was forged, with a record in
\* the store
C13_KeyNotFoundBeforeAccess ==
    /\ last.op = "GenerateCommitments"
    /\ last.res = ErrKeyNotFound
    /\ last.sig # "signKey"
    /\ commitmentData # <<>>

\* C14: GenerateResponse with a negative challenge or one longer than Lh bits
\* returns InvalidChallenge whatever the packet, token, key id, commit id and
\* store are, and leaves the store as it was; a challenge of exactly Lh bits
\* is not refused, and is answered when the other inputs are valid and the
\* commit id is stored.
C14_ChallengeBoundsFirst ==
    /\ [](\A ep \in OfferedPackets, tok \in OfferedTokens, c \in CommitIDs,
             ch \in Challenges, k \in KeyIDs, d \in AnyStores :
              LET res == GenerateResponseRes(ep, tok, c, ch, k, d, now)
              IN  /\ (ch.sign < 0 \/ ch.bits > Lh) => res = ErrInvalidChallenge
                  /\ (ch.sign >= 0 /\ ch.bits = Lh) =>
                       /\ res # ErrInvalidChallenge
                       /\ (ValidSession(ep, tok) /\ k \in TrustedKeyIDs
                             /\ mapHas(d, c)) => res = OK)
    /\ [][(last'.op = "GenerateResponse" /\ last'.res = ErrInvalidChallenge)
             => commitmentData' = commitmentData]_vars

\* InvalidChallenge returned to a caller whose token was forged, on a stored
\* commit id
C14_ChallengeBeforeAccess ==
    /\ last.op = "GenerateResponse"
    /\ last.res = ErrInvalidChallenge
    /\ last.sig # "signKey"
    /\ mapHas(commitmentData, last.cid)

\* C15: from a packet built by GenerateKeyshareSecret(pin), ValidatePin with
\* pin returns a token; while that token is unexpired GenerateCommitments
\* with a trusted key succeeds and stores a record under the id it returns;
\* GenerateResponse on a stored id with a challenge in bounds succeeds,
\* returns a token with sub = ProofP and removes the record.
C15_HappyPath ==
    /\ \A pin \in ChainPins : GenerateKeyshareSecretRes(pin, "ok") = OK
    /\ \A ep \in packets :
         /\ ValidatePinRes(ep, lineage[ep.ct.id].pin) = OK
         /\ \A tok \in tokens :
              (BoundTo(tok, ep) /\ Unexpired(tok, now)) =>
                  /\ GenerateCommitmentsRes(ep, tok, <<"K1">>, "ok", now) = OK
                  /\ \A c \in DOMAIN commitmentData, ch \in Challenges :
                       InBounds(ch) =>
                           /\ GenerateResponseRes(ep, tok, c, ch, "K1",
                                                  commitmentData, now) = OK
                           /\ ~mapHas(GenerateResponseStore(ep, tok, c, ch, "K1",
                                          commitmentData, now), c)
    /\ (last.op = "ValidatePin" /\ last.res = OK) =>
         \E tok \in tokens : tok.token_id = B64Encode(last.pid)
    /\ (last.op = "GenerateCommitments" /\ last.res = OK) =>
         mapHas(commitmentData, last.cid)
    /\ (last.op = "GenerateResponse" /\ last.res = OK) =>
         /\ last.sub = "ProofP"
         /\ ~mapHas(commitmentData, last.cid)

\* the last step of the sequence, on the packet GenerateKeyshareSecret built
C15_ResponseIssued ==
    /\ last.op = "GenerateResponse"
    /\ last.res = OK
    /\ last.sub = "ProofP"
    /\ lineage[last.pid] = [root |-> 1, pin |-> <<1>>, anc |-> {}]
    /\ last.tid = last.pid
    /\ ~mapHas(commitmentData, last.cid)
    /\ answers[1] = 1

\* C16 as stated: every token ValidatePin issues has exp = iat + 180 and
\* the base64 encoding of its packet's id as token_id, also when the clock
\* advances between the steps of ValidatePin.
C16_TokenClaims ==
    \A tok \in tokens :
        /\ tok.exp = tok.iat + TokenLifetime
        /\ \E ep \in packets : tok.token_id = B64Encode(ep.ct.id)

\* C17: for every byte string s of at most 64 bytes padPin(s) is 64 bytes,
\* the bytes of s followed by zero bytes; for every longer s it fails with
\* PinTooLong.  This holds of every PIN tried and of the PIN in every packet
\* built.
C17_PinPadding ==
    /\ \A s \in PinInputs :
         IF Len(s) <= PinSize
         THEN /\ padPin(s).err = OK
              /\ Len(padPin(s).val) = PinSize
              /\ \A i \in 1..Len(s) : padPin(s).val[i] = s[i]
              /\ \A i \in (Len(s) + 1)..PinSize : padPin(s).val[i] = 0
         ELSE padPin(s).err = ErrPinTooLong
    /\ \A ep \in packets :
         LET s == lineage[ep.ct.id].pin
         IN  /\ Len(s) <= PinSize
             /\ Len(ep.ct.pin) = PinSize
             /\ \A i \in 1..PinSize :
                  ep.ct.pin[i] = IF i <= Len(s) THEN s[i] ELSE 0
    /\ last.op = "ValidatePin" =>
         (last.res = ErrPinTooLong <=> Len(last.pin) > PinSize)

\* a packet built with a PIN of two bytes, and then a PIN of 65 bytes refused
C17_PaddedAndRefused ==
    /\ \E ep \in packets : Len(lineage[ep.ct.id].pin) = MaxPinLen
    /\ last.op = "ValidatePin"
    /\ last.res = ErrPinTooLong
    /\ Len(last.pin) = PinSize + 1

\* store d2 is store d with a record put under c / with the record of c gone
PutUnder(d, d2, c) ==
    /\ DOMAIN d2 = DOMAIN d \cup {c}
    /\ \A x \in DOMAIN d \ {c} : d2[x] = d[x]
GoneFrom(d, d2, c) ==
    /\ DOMAIN d2 = DOMAIN d \ {c}
    /\ \A x \in DOMAIN d2 : d2[x] = d[x]

\* C18: a successful GenerateCommitments puts one record, under the id it
\* returns; a GenerateResponse that passed its challenge, key and access
\* checks removes the record of its commit id; every other call (the
\* lifecycle operations, failing GenerateCommitments, GenerateResponse
\* rejected by a check) leaves the store as it was; the trusted-key registry
\* and the signing key never change.
C18_StoreFrame ==
    /\ [][IF last'.op = "GenerateCommitments" /\ last'.res = OK
          THEN /\ PutUnder(commitmentData, commitmentData', last'.cid)
               /\ commitmentData'[last'.cid] = nextCommit
          ELSE IF last'.op = "GenerateResponse" /\ last'.res \notin EarlyErrors
          THEN GoneFrom(commitmentData, commitmentData', last'.cid)
          ELSE commitmentData' = commitmentData]_vars
    /\ [][trustedKeys' = trustedKeys /\ signKey' = signKey]_vars

\* a PIN change made while a record is stored
C18_PinChangedWithRecordStored ==
    /\ last.op = "ChangePin"
    /\ last.res = OK
    /\ commitmentData # <<>>

\* C19: a stored record stays in the store, under its id, until a
\* GenerateResponse on that id reaches the fetch: no other call removes it,
\* whether the token has expired, the PIN was changed or other commit ids
\* are used; a record in the store has not been fetched; nothing caps the
\* number of records.
C19_NoExpiry ==
    /\ [][\A c \in DOMAIN commitmentData :
            \/ /\ c \in DOMAIN commitmentData'
               /\ \/ commitmentData'[c] = commitmentData[c]
                  \/ last'.op = "GenerateCommitments" /\ last'.cid = c
            \/ /\ last'.op = "GenerateResponse"
               /\ last'.cid = c
               /\ last'.res \notin EarlyErrors]_vars
    /\ [](\A c \in DOMAIN commitmentData : respSeen[c] \in {"none", "rejected"})

\* every commit id holds a record after the token has expired and the PIN
\* was changed
C19_RecordsOutliveToken ==
    /\ DOMAIN commitmentData = CommitIDs
    /\ tokens # {}
    /\ \A tok \in tokens : now > tok.exp
    /\ last.op = "ChangePin"
    /\ last.res = OK

\* entries of lin: a record put in the store, a fetch (lookup and delete)
Stores(n) == lin[n].op = "GenerateCommitments" /\ lin[n].secret # 0
Fetches(n) == lin[n].op = "GenerateResponse" /\ InBounds(lin[n].challenge)
Touches(n, c) == lin[n].commitID = c /\ (Stores(n) \/ Fetches(n))
\* entry j puts a record under the id of the unfetched record of entry i
Overwrites(i, j) ==
    /\ i < j
    /\ Stores(i) /\ Stores(j)
    /\ lin[j].t # lin[i].t
    /\ lin[j].commitID = lin[i].commitID
    /\ \A k \in (i + 1)..(j - 1) : ~Touches(k, lin[i].commitID)
\* the last entry before k that put or fetched a record under c (0: none)
LastTouch(k, c) ==
    LET prior == {n \in 1..(k - 1) : Touches(n, c)}
    IN  IF prior = {} THEN 0 ELSE CHOOSE n \in prior : \A m \in prior : m <= n

\* C20: a GenerateCommitments that draws an id already in the store returns
\* without error and replaces the record; the commit secret replaced is never
\* used; when the session that stored it calls GenerateResponse on the id it
\* gets a response computed with another session's commit secret if no fetch
\* on the id came since the last record was put, and UnknownCommit otherwise.
C20_CollisionOverwrites ==
    /\ \A t \in Threads :
         pc[t] = "gc_unlock" =>
             /\ mapHas(commitmentData, loc[t].commitID)
             /\ mapGet(commitmentData, loc[t].commitID) = loc[t].commitSecret
    /\ \A i \in 1..Len(lin), j \in 1..Len(lin) :
         Overwrites(i, j) =>
             /\ answers[lin[i].secret] = 0
             /\ pc[lin[j].t] \notin {"gc_store", "gc_unlock"}
                    => ret[lin[j].t].gc = OK
             /\ \A k \in 1..Len(lin) :
                  (k > j /\ lin[k].t = lin[i].t /\ Fetches(k)
                      /\ lin[k].commitID = lin[i].commitID
                      /\ pc[lin[i].t] = "done") =>
                      LET m == LastTouch(k, lin[i].commitID)
                      IN  IF Stores(m)
                          THEN /\ ret[lin[i].t].gr = OK
                               /\ loc[lin[i].t].commit = lin[m].secret
                               /\ lin[m].secret # lin[i].secret
                          ELSE ret[lin[i].t].gr = ErrUnknownCommit

\* a session whose record was overwritten, answered with the other session's
\* commit secret, while the other session got UnknownCommit
C20_AnsweredWithOthersSecret ==
    \E i \in 1..Len(lin), j \in 1..Len(lin) :
        /\ Overwrites(i, j)
        /\ pc[lin[i].t] = "done" /\ pc[lin[j].t] = "done"
        /\ loc[lin[i].t].commitID = lin[i].commitID
        /\ ret[lin[i].t].gr = OK
        /\ loc[lin[i].t].commit = lin[j].secret
        /\ ret[lin[j].t].gr = ErrUnknownCommit

\* C21: ValidatePin with a PIN over 64 bytes, and ChangePin with an old or a
\* new PIN over 64 bytes, return PinTooLong whatever the packet is (also one
\* that fails decryption, or one holding another PIN) and whatever the other
\* PIN is; such a call issues no token and builds no packet, so ChangePin with
\* the right old PIN and an over-long new PIN leaves no packet with a new id.
C21_PinTooLongFirst ==
    /\ [](\A ep \in OfferedPackets, pin \in SessionPins :
            TooLong(pin) =>
                /\ ValidatePinRes(ep, pin) = ErrPinTooLong
                /\ \A other \in SessionPins, o \in Oracles :
                     /\ ChangePinRes(ep, pin, other, o) = ErrPinTooLong
                     /\ ChangePinRes(ep, other, pin, o) = ErrPinTooLong)
    /\ []((last.op = "ValidatePin" /\ TooLong(last.pin))
            => last.res = ErrPinTooLong)
    /\ []((last.op = "ChangePin" /\ TooLong(last.pin))
            => last.res = ErrPinTooLong)
    /\ [][(last'.op \in {"ValidatePin", "ChangePin"}
             /\ last'.res = ErrPinTooLong)
            => /\ last'.tid = 0
               /\ tokens' = tokens
               /\ packets' = packets
               /\ nextId' = nextId
               /\ lineage' = lineage]_vars

\* ChangePin refused for its new PIN alone: the old PIN given is the packet's
\* and the packet given is still the only one
C21_OverlongNewPinRefused ==
    /\ last.op = "ChangePin"
    /\ last.res = ErrPinTooLong
    /\ last.pid \in DOMAIN lineage
    /\ last.pin = lineage[last.pid].pin
    /\ Cardinality(packets) = 1
    /\ nextId = 2

\* C22: a record in the store is bound to no packet, user or token:
\* GenerateResponse with any packet and a token valid for that packet (a
\* challenge in bounds, a trusted key) is answered on every stored commit id
\* and removes the record, whoever the record was stored for; the call that
\* takes a record can be made with a packet other than the one it was stored
\* for.
C22_RecordsUnbound ==
    /\ [](\A ep \in packets, tok \in tokens, c \in DOMAIN commitmentData,
             ch \in Challenges, k \in TrustedKeyIDs :
              (ValidSession(ep, tok) /\ InBounds(ch)) =>
                  /\ GenerateResponseRes(ep, tok, c, ch, k, commitmentData, now)
                         = OK
                  /\ GoneFrom(commitmentData,
                              GenerateResponseStore(ep, tok, c, ch, k,
                                                    commitmentData, now), c))
    /\ [][(last'.op = "GenerateResponse" /\ last'.res = OK) =>
            /\ GoneFrom(commitmentData, commitmentData', last'.cid)
            /\ answers'[commitmentData[last'.cid]]
                   = answers[commitmentData[last'.cid]] + 1
            /\ owner'[last'.cid] = [put |-> owner[last'.cid].put,
                                    got |-> last'.pid]]_vars
    /\ [](\A c \in DOMAIN commitmentData :
            owner[c].put # 0 /\ owner[c].got = 0)

\* one record stored for a packet and taken with the packet ChangePin made of
\* it, another stored for one user's packet and taken with another user's
C22_TakenAcrossSessions ==
    \E c1 \in CommitIDs, c2 \in CommitIDs :
        /\ owner[c1].got # 0
        /\ owner[c1].put \in lineage[owner[c1].got].anc
        /\ owner[c2].got # 0
        /\ lineage[owner[c2].put].root # lineage[owner[c2].got].root
        /\ answers[1] = 1 /\ answers[2] = 1

\* C23: GenerateResponse checks the key id against the trusted-key registry
\* alone: with a valid packet and token and a challenge in bounds it passes
\* its checks for every trusted key id, and a call that reaches the fetch is
\* answered exactly when the last call that touched its commit id stored a
\* record, whether or not its key id is one that record was committed to; the
\* record is gone when the call unlocks.
C23_AnyTrustedKey ==
    /\ \A t \in Threads, ch \in ThreadChallenges, k \in TrustedKeyIDs :
         InBounds(ch) =>
             GenerateResponseCheck(ThreadPacket(t), ThreadToken(t), ch, k, now)
                 = OK
    /\ \A n \in 1..Len(lin) :
         (Fetches(n) /\ pc[lin[n].t] = "done") =>
             LET m == LastTouch(n, lin[n].commitID)
             IN  ret[lin[n].t].gr =
                     IF m # 0 /\ Stores(m) THEN OK ELSE ErrUnknownCommit
    /\ \A t \in Threads :
         pc[t] = "gr_unlock" => ~mapHas(commitmentData, loc[t].commitID)

\* a response issued for K2 on a record committed to K1, K2 never having been
\* committed to
C23_UncommittedKeyAnswered ==
    \E n \in 1..Len(lin) :
        /\ Fetches(n)
        /\ lin[n].keyID = "K2"
        /\ pc[lin[n].t] = "done"
        /\ ret[lin[n].t].gr = OK
        /\ LastTouch(n, lin[n].commitID) # 0
        /\ Stores(LastTouch(n, lin[n].commitID))
        /\ lin[LastTouch(n, lin[n].commitID)].keyID = "K1"
        /\ \A j \in 1..Len(lin) : Stores(j) => lin[j].keyID # "K2"
        /\ ~mapHas(commitmentData, lin[n].commitID)

\* a packet of which ChangePin has made another packet
Superseded(ep) == \E e2 \in packets : ep.ct.id \in lineage[e2.ct.id].anc

\* C24: ChangePin changes nothing for the packet it was given: that packet is
\* still accepted by ValidatePin with the PIN it was built with, and an
\* unexpired token issued for it still passes ValidateJWT with it and gets
\* GenerateCommitments and GenerateResponse (on a stored commit id) answered
\* with it; the token is refused only with the packets ChangePin made.
C24_OldPacketStillServed ==
    \A ep \in packets :
        Superseded(ep) =>
            /\ ValidatePinRes(ep, lineage[ep.ct.id].pin) = OK
            /\ \A tok \in tokens :
                 (BoundTo(tok, ep) /\ Unexpired(tok, now)) =>
                     /\ ValidateJWTRes(ep, tok, now) = OK
                     /\ GenerateCommitmentsRes(ep, tok, <<"K1">>, "ok", now) = OK
                     /\ \A c \in DOMAIN commitmentData :
                          GenerateResponseRes(ep, tok, c,
                                              [sign |-> 1, bits |-> 6], "K1",
                                              commitmentData, now) = OK
                     /\ \A e2 \in packets :
                          ep.ct.id \in lineage[e2.ct.id].anc =>
                              ValidateJWTRes(e2, tok, now) = ErrInvalidJWT

\* a response issued with a packet and its token after ChangePin had made a
\* packet with another PIN of it, on a record stored with the old packet too
C24_ResponseOnOldPacket ==
    /\ last.op = "GenerateResponse"
    /\ last.res = OK
    /\ last.tid = last.pid
    /\ owner[last.cid].put = last.pid
    /\ \E e2 \in packets :
         /\ last.pid \in lineage[e2.ct.id].anc
         /\ lineage[e2.ct.id].pin # lineage[last.pid].pin

====
